---------------------------- MODULE Spec2Model ----------------------------
(***************************************************************************)
(* A model of the assetio crate (src/src/lib.rs): the alignment helper,    *)
(* the little-endian archive codec, Builder, Library, the two AssetLoader  *)
(* implementations and AssetManager.                                       *)
(*                                                                         *)
(* A u64 is a tuple of four 16-bit limbs, least significant first, so that *)
(* values up to 2^64 - 1 (the magic number does not fit a 32-bit integer)  *)
(* and the wrap-around of 64-bit arithmetic are represented exactly.       *)
(***************************************************************************)
EXTENDS Integers, Sequences, FiniteSets, TLC

VARIABLES
    overflow_checks,  \* build profile: TRUE = arithmetic overflow panics (debug)
    al_val,           \* align_up under test: the value                (u64)
    al_align,         \* align_up under test: the alignment            (u64)
    al_once,          \* align_up(al_val, al_align), or NotRun / Panic
    al_twice,         \* align_up(al_once, al_align), or NotRun / Panic
    fs,               \* the filesystem: path -> [kind, data]
    hasher,           \* DefaultHasher: path -> the u64 that finish() returns
    b_assets,         \* Builder.assets: HashMap<String, AssetDescription>
    ins_count,        \* history: the number of insert calls made per path
    output,           \* the bytes the output sink of build has accepted
    build_result,     \* "none" | "Ok" | "Err" | "panic"
    build_log,        \* history of build: the HashMap order, the table, the
                      \* base offsets and where each payload began
    lib_file,         \* the bytes of the file handed to Library::new
    lib_result,       \* Library::new: "none" | "Ok" | an io::ErrorKind
    library,          \* the Library: [source, assets], when lib_result = "Ok"
    load_path,        \* the path last passed to Library::load
    asset,            \* what that load returned: <<>> (None) or <<Asset>>
    data_out,         \* Asset::data of it: [state, bytes]
    mgr,              \* AssetManager: [loader, assets], assets: path -> handle
    heap,             \* the Arc<Asset> allocations: handle -> Asset
    mgr_loads,        \* history: AssetManager::load calls, per path
    mgr_path,         \* the path of the last AssetManager::load call
    mgr_ret,          \* what it returned: <<>> (None) or <<handle>>
    loader_calls,     \* history: calls of the wrapped loader, per path
    loader_fails      \* history: those that returned None, per path

alvars == <<overflow_checks, al_val, al_align, al_once, al_twice>>

envvars == <<fs, hasher>>

bvars == <<b_assets, ins_count, output, build_result, build_log>>

lvars == <<lib_file, lib_result, library, load_path, asset, data_out>>

mvars == <<mgr, heap, mgr_loads, mgr_path, mgr_ret, loader_calls, loader_fails>>

vars == <<alvars, envvars, bvars, lvars, mvars>>

(***************************************************************************)
(* Bounds of the model.                                                    *)
(***************************************************************************)
MaxAlignDelta == 66

MaxInserts == 2

MaxLoads == 2

(***************************************************************************)
(* u64 arithmetic.                                                         *)
(***************************************************************************)
Limb == 65536

NumLimbs == 4

Panic == <<"panic">>

NotRun == <<"not run">>

\* A small natural number (below 2^31) as a u64.
U64(n) == <<n % Limb, (n \div Limb) % Limb, 0, 0>>

FitsNat(x) == x[3] = 0 /\ x[4] = 0 /\ x[2] < 32768

\* The natural number a u64 holds, for one that FitsNat.
ToNat(x) == x[1] + x[2] * Limb

U64_MAX == <<Limb - 1, Limb - 1, Limb - 1, Limb - 1>>

RECURSIVE BitAnd(_, _)
BitAnd(a, b) ==
    IF a = 0 \/ b = 0 THEN 0
    ELSE (a % 2) * (b % 2) + 2 * BitAnd(a \div 2, b \div 2)

\* x + y on 64 bits: the wrapped sum and whether it overflowed.
overflowing_add(x, y) ==
    LET s1 == x[1] + y[1]
        s2 == x[2] + y[2] + (s1 \div Limb)
        s3 == x[3] + y[3] + (s2 \div Limb)
        s4 == x[4] + y[4] + (s3 \div Limb)
    IN  [val |-> <<s1 % Limb, s2 % Limb, s3 % Limb, s4 % Limb>>,
         overflow |-> s4 \div Limb = 1]

\* x - y on 64 bits: the wrapped difference and whether it underflowed.
overflowing_sub(x, y) ==
    LET d1 == x[1] - y[1]
        b1 == IF d1 < 0 THEN 1 ELSE 0
        d2 == x[2] - y[2] - b1
        b2 == IF d2 < 0 THEN 1 ELSE 0
        d3 == x[3] - y[3] - b2
        b3 == IF d3 < 0 THEN 1 ELSE 0
        d4 == x[4] - y[4] - b3
        b4 == IF d4 < 0 THEN 1 ELSE 0
    IN  [val |-> <<d1 + b1 * Limb, d2 + b2 * Limb, d3 + b3 * Limb, d4 + b4 * Limb>>,
         overflow |-> b4 = 1]

\* Rust's `+` and `-` on u64: a panic when the build checks overflow, the
\* wrapped result otherwise.  A panicking operand panics the expression.
Add(x, y) ==
    IF x = Panic \/ y = Panic THEN Panic
    ELSE LET r == overflowing_add(x, y)
         IN  IF r.overflow /\ overflow_checks THEN Panic ELSE r.val

Sub(x, y) ==
    IF x = Panic \/ y = Panic THEN Panic
    ELSE LET r == overflowing_sub(x, y)
         IN  IF r.overflow /\ overflow_checks THEN Panic ELSE r.val

\* Rust's `!` and `&` on u64.
Not(x) == IF x = Panic THEN Panic ELSE [i \in 1..NumLimbs |-> (Limb - 1) - x[i]]

And(x, y) ==
    IF x = Panic \/ y = Panic THEN Panic
    ELSE [i \in 1..NumLimbs |-> BitAnd(x[i], y[i])]

\* Comparison of two limb tuples of the same length, most significant limb
\* (the last) first.
RECURSIVE LimbsLess(_, _, _)
LimbsLess(x, y, i) ==
    IF i = 0 THEN FALSE
    ELSE IF x[i] # y[i] THEN x[i] < y[i]
    ELSE LimbsLess(x, y, i - 1)

Less(x, y) == LimbsLess(x, y, NumLimbs)

LessEq(x, y) == x = y \/ Less(x, y)

align_up_off_by_one(val, align) ==
    And(Add(val, align), Not(Sub(align, U64(1))))

align_up(val, align) ==
    And(Add(val, Sub(align, U64(1))), Not(Sub(align, U64(1))))

(***************************************************************************)
(* The environment: paths, files and the hasher.                           *)
(***************************************************************************)
Names == {"a", "b"}

ASSET_ALIGN_SIZE == 64

FileLens == {0, 1, ASSET_ALIGN_SIZE, ASSET_ALIGN_SIZE + 1}

NameSeed(name) == IF name = "a" THEN 17 ELSE IF name = "b" THEN 101 ELSE 201

\* A file's bytes: a pattern that differs from path to path and has no zero
\* byte, so that padding is told from payload.
FileContent(name, len) == [i \in 1..len |-> 1 + ((NameSeed(name) + 7 * i) % 255)]

\* "missing": no such path.  "unreadable": metadata succeeds, open fails.
FileStates(name) ==
    {[kind |-> "missing", data |-> <<>>],
     [kind |-> "unreadable", data |-> FileContent(name, 1)]}
    \cup {[kind |-> "file", data |-> FileContent(name, n)] : n \in FileLens}

\* The values DefaultHasher may give the paths.  SipHash is deterministic and
\* maps infinitely many strings to 2^64 values, so two paths may share one.
HashValues == {<<48879, 1, 0, 7>>, <<2, 0, 65535, 32768>>}

IdleEnv ==
    /\ fs = [n \in Names |-> [kind |-> "missing", data |-> <<>>]]
    /\ hasher = [n \in Names |-> CHOOSE h \in HashValues : TRUE]

IdleAlign ==
    /\ al_val = U64(0)
    /\ al_align = U64(1)
    /\ al_once = NotRun
    /\ al_twice = NotRun

IdleBuilder ==
    /\ b_assets = <<>>
    /\ ins_count = [n \in Names |-> 0]
    /\ output = <<>>
    /\ build_result = "none"
    /\ build_log = <<>>

(***************************************************************************)
(* The codec: FileHeader, AssetTableHeader, AssetTableEntry.               *)
(***************************************************************************)
MAGIC_NUMBER == <<48879, 57005, 0, 0>>    \* 0xdeadbeef_u64

FileHeader_get_serialized_size == 8

AssetTableHeader_get_serialized_size == 8

AssetTableEntry_get_serialized_size == 24

\* write_u64::<LittleEndian>: eight bytes, least significant first.
write_u64(x) ==
    <<x[1] % 256, x[1] \div 256, x[2] % 256, x[2] \div 256,
      x[3] % 256, x[3] \div 256, x[4] % 256, x[4] \div 256>>

FileHeader_to_stream(h) == write_u64(h.magic_number)

AssetTableHeader_to_stream(h) == write_u64(h.num_assets)

AssetTableEntry_to_stream(e) == write_u64(e.id) \o write_u64(e.offset) \o write_u64(e.size)

(***************************************************************************)
(* Builder.                                                                *)
(***************************************************************************)
AssetDescription_new(path) == [path |-> path]

\* HashMap::insert: the value under an existing key is replaced.
HashMap_insert_clobber(map, key, value) == [k \in {key} |-> value]

HashMap_insert(map, key, value) ==
    [k \in DOMAIN map \cup {key} |-> IF k = key THEN value ELSE map[k]]

\* The orders in which a HashMap may iterate over its keys.
Orders(keys) ==
    {o \in [1..Cardinality(keys) -> keys] : \A i, j \in DOMAIN o : i # j => o[i] # o[j]}

Zeros(n) == [i \in 1..n |-> 0]

Min(a, b) == IF a < b THEN a ELSE b

NoLimit == -1

\* The first loop of build: one table entry per asset, in iteration order.
RECURSIVE build_entries_unaligned(_, _, _)
build_entries_unaligned(order, i, cur_asset_data_offset) ==
    IF i > Len(order) THEN <<>>
    ELSE LET size == U64(Len(fs[order[i]].data))
         IN  <<[id |-> hasher[order[i]], offset |-> cur_asset_data_offset, size |-> size]>>
             \o build_entries_unaligned(order, i + 1, Add(cur_asset_data_offset, size))

RECURSIVE build_entries(_, _, _)
build_entries(order, i, cur_asset_data_offset) ==
    IF i > Len(order) THEN <<>>
    ELSE LET size == U64(Len(fs[order[i]].data))
         IN  <<[id |-> hasher[order[i]], offset |-> cur_asset_data_offset, size |-> size]>>
             \o build_entries(order, i + 1,
                    Add(cur_asset_data_offset, align_up(size, U64(ASSET_ALIGN_SIZE))))

\* The writes of build, in program order.  Each step is a write of bytes
\* ("bytes": a header, an entry, padding; "asset": the io::copy of a file) or
\* a File::open that fails ("open_err").
RECURSIVE build_asset_steps(_, _)
build_asset_steps(order, i) ==
    IF i > Len(order) THEN <<>>
    ELSE LET f == fs[order[i]]
             bytes_copied == Len(f.data)
             aligned_size == ToNat(align_up(U64(bytes_copied), U64(ASSET_ALIGN_SIZE)))
         IN  IF f.kind # "file"
             THEN <<[kind |-> "open_err", name |-> order[i], bytes |-> <<>>]>>
             ELSE <<[kind |-> "asset", name |-> order[i], bytes |-> f.data],
                    [kind |-> "bytes", name |-> order[i],
                     bytes |-> Zeros(aligned_size - bytes_copied)]>>
                  \o build_asset_steps(order, i + 1)

build_steps(order, asset_entries, padding_bytes) ==
    <<[kind |-> "bytes", name |-> "",
       bytes |-> FileHeader_to_stream([magic_number |-> MAGIC_NUMBER])],
      [kind |-> "bytes", name |-> "",
       bytes |-> AssetTableHeader_to_stream([num_assets |-> U64(Len(asset_entries))])]>>
    \o [i \in 1..Len(asset_entries) |->
          [kind |-> "bytes", name |-> "", bytes |-> AssetTableEntry_to_stream(asset_entries[i])]]
    \o <<[kind |-> "bytes", name |-> "", bytes |-> Zeros(padding_bytes)]>>
    \o build_asset_steps(order, 1)

\* Runs the steps against a sink that accepts `cap` bytes in all (NoLimit:
\* any number) and fails the write that exceeds it; every step is followed
\* by `?`, so the first failure ends the run.
RECURSIVE run_steps(_, _, _, _, _)
run_steps(steps, i, out, cap, began) ==
    IF i > Len(steps) THEN [out |-> out, err |-> "none", began |-> began]
    ELSE LET s == steps[i]
             room == IF cap = NoLimit THEN Len(s.bytes)
                     ELSE Min(Len(s.bytes), cap - Len(out))
             out2 == out \o SubSeq(s.bytes, 1, room)
             began2 == IF s.kind = "asset"
                       THEN [n \in DOMAIN began \cup {s.name} |->
                               IF n = s.name THEN Len(out) ELSE began[n]]
                       ELSE began
         IN  IF s.kind = "open_err" THEN [out |-> out, err |-> "open", began |-> began]
             ELSE IF room < Len(s.bytes) THEN [out |-> out2, err |-> "write", began |-> began2]
             ELSE run_steps(steps, i + 1, out2, cap, began2)

\* Builder::build, with the order the HashMap iterates in and the sink's
\* capacity as inputs.
Builder_build(assets, order, cap) ==
    LET asset_data_base_offset ==
            FileHeader_get_serialized_size + AssetTableHeader_get_serialized_size
            + Cardinality(DOMAIN assets) * AssetTableEntry_get_serialized_size
        aligned == align_up(U64(asset_data_base_offset), U64(ASSET_ALIGN_SIZE))
        asset_entries == build_entries(order, 1, aligned)
        steps == build_steps(order, asset_entries, ToNat(aligned) - asset_data_base_offset)
        run == run_steps(steps, 1, <<>>, cap, <<>>)
    IN  IF \E n \in DOMAIN assets : fs[assets[n].path].kind = "missing"
        THEN \* fs::metadata(..).unwrap() panics before anything is written
             [result |-> "panic", error |-> "metadata", out |-> <<>>, log |-> <<>>]
        ELSE [result |-> IF run.err = "none" THEN "Ok" ELSE "Err",
              error |-> run.err, out |-> run.out,
              log |-> [order |-> order, base |-> U64(asset_data_base_offset),
                       aligned_base |-> aligned, entries |-> asset_entries,
                       began |-> run.began, cap |-> cap]]

(***************************************************************************)
(* Library: reading an archive.                                            *)
(***************************************************************************)
\* read_u64::<LittleEndian> on a byte slice: UnexpectedEof when fewer than
\* eight bytes are left, else the value and the rest of the stream.
read_u64(stream) ==
    IF Len(stream) < 8 THEN [ok |-> FALSE, val |-> U64(0), rest |-> <<>>]
    ELSE [ok |-> TRUE,
          val |-> <<stream[1] + 256 * stream[2], stream[3] + 256 * stream[4],
                    stream[5] + 256 * stream[6], stream[7] + 256 * stream[8]>>,
          rest |-> SubSeq(stream, 9, Len(stream))]

FileHeader_from_stream(stream) ==
    LET r == read_u64(stream)
    IN  [ok |-> r.ok, header |-> [magic_number |-> r.val], rest |-> r.rest]

AssetTableHeader_from_stream(stream) ==
    LET r == read_u64(stream)
    IN  [ok |-> r.ok, header |-> [num_assets |-> r.val], rest |-> r.rest]

AssetTableEntry_from_stream(stream) ==
    LET id == read_u64(stream)
        offset == read_u64(id.rest)
        size == read_u64(offset.rest)
    IN  [ok |-> id.ok /\ offset.ok /\ size.ok,
         entry |-> [id |-> id.val, offset |-> offset.val, size |-> size.val],
         rest |-> size.rest]

\* The loop of AssetTable::from_stream: `for _ in 0..header.num_assets`.
RECURSIVE from_stream_loop(_, _, _, _)
from_stream_loop(stream, i, num_assets, entries) ==
    IF ~Less(i, num_assets) THEN [ok |-> TRUE, entries |-> entries]
    ELSE LET e == AssetTableEntry_from_stream(stream)
         IN  IF ~e.ok THEN [ok |-> FALSE, entries |-> entries]
             ELSE from_stream_loop(e.rest, overflowing_add(i, U64(1)).val, num_assets,
                                   HashMap_insert(entries, e.entry.id, e.entry))

AssetTable_from_stream(stream) ==
    LET h == AssetTableHeader_from_stream(stream)
    IN  IF ~h.ok THEN [ok |-> FALSE, entries |-> <<>>]
        ELSE from_stream_loop(h.rest, U64(0), h.header.num_assets, <<>>)

\* Library::new.  Mmap::map refuses a file of length zero.
Library_new_no_magic_check(file) ==
    LET assets == AssetTable_from_stream(FileHeader_from_stream(file).rest)
    IN  IF ~FileHeader_from_stream(file).ok \/ ~assets.ok
        THEN [result |-> "UnexpectedEof", source |-> <<>>, assets |-> <<>>]
        ELSE [result |-> "Ok", source |-> file, assets |-> assets.entries]

Library_new(file) ==
    LET file_header == FileHeader_from_stream(file)
        assets == AssetTable_from_stream(file_header.rest)
    IN  IF Len(file) = 0
        THEN [result |-> "InvalidInput", source |-> <<>>, assets |-> <<>>]
        ELSE IF ~file_header.ok
        THEN [result |-> "UnexpectedEof", source |-> <<>>, assets |-> <<>>]
        ELSE IF file_header.header.magic_number # MAGIC_NUMBER
        THEN [result |-> "InvalidData", source |-> <<>>, assets |-> <<>>]
        ELSE IF ~assets.ok
        THEN [result |-> "UnexpectedEof", source |-> <<>>, assets |-> <<>>]
        ELSE [result |-> "Ok", source |-> file, assets |-> assets.entries]

\* Library::assets: the ids of the table.
Library_assets(lib) == {lib.assets[k].id : k \in DOMAIN lib.assets}

AssetId_from_str(str) == hasher[str]

\* impl AssetLoader for Library: None is <<>>, Some(asset) is <<asset>>.
Library_load_first_entry(lib, path) ==
    IF DOMAIN lib.assets # {}
    THEN LET entry == lib.assets[CHOOSE k \in DOMAIN lib.assets : TRUE]
         IN  <<[path |-> path, offset |-> entry.offset, size |-> entry.size,
                source |-> lib.source]>>
    ELSE <<>>

Library_load(lib, path) ==
    IF AssetId_from_str(path) \in DOMAIN lib.assets
    THEN LET entry == lib.assets[AssetId_from_str(path)]
         IN  <<[path |-> path, offset |-> entry.offset, size |-> entry.size,
                source |-> lib.source]>>
    ELSE <<>>

\* impl AssetLoader for FileAssetLoader: the whole file, mapped on its own.
FileAssetLoader_load(path) ==
    IF path \in DOMAIN fs /\ fs[path].kind = "file" /\ Len(fs[path].data) > 0
    THEN <<[path |-> path, offset |-> U64(0), size |-> U64(Len(fs[path].data)),
            source |-> fs[path].data]>>
    ELSE <<>>

Asset_data_end_is_size(a) ==
    LET len == U64(Len(a.source))
    IN  IF Less(a.size, a.offset) \/ Less(len, a.size)
        THEN [state |-> "panic", bytes |-> <<>>]
        ELSE [state |-> "ok", bytes |-> SubSeq(a.source, ToNat(a.offset) + 1, ToNat(a.size))]

\* Asset::data: the slice source[offset .. offset + size], which panics when
\* the sum overflows (a build that checks overflow), when the wrapped sum is
\* below the offset, or when the end lies beyond the source.
Asset_data(a) ==
    LET end == Add(a.offset, a.size)
        len == U64(Len(a.source))
    IN  IF end = Panic \/ Less(end, a.offset) \/ Less(len, end)
        THEN [state |-> "panic", bytes |-> <<>>]
        ELSE [state |-> "ok", bytes |-> SubSeq(a.source, ToNat(a.offset) + 1, ToNat(end))]

IdleLibrary ==
    /\ lib_file = <<>>
    /\ lib_result = "none"
    /\ library = [source |-> <<>>, assets |-> <<>>]
    /\ load_path = ""
    /\ asset = <<>>
    /\ data_out = [state |-> "not run", bytes |-> <<>>]

\* The files handed to Library::new: the file build wrote (whole, or cut
\* short by a failed build), and that file altered by a third party.
AlterBytes(file, at, bytes) ==
    [i \in 1..Len(file) |-> IF i >= at /\ i < at + Len(bytes) THEN bytes[i - at + 1] ELSE file[i]]

\* The file itself; its magic number altered; its entry count set to the
\* largest u64; the size of its first entry set to the largest u64 and to
\* the length of the file; the empty file.
ArchiveFiles(file) ==
    {file, <<>>}
    \cup (IF Len(file) >= 8 THEN {AlterBytes(file, 1, <<238>>)} ELSE {})
    \cup (IF Len(file) >= 16 THEN {AlterBytes(file, 9, write_u64(U64_MAX))} ELSE {})
    \cup (IF Len(file) >= 40 THEN {AlterBytes(file, 33, write_u64(U64_MAX)),
                                   AlterBytes(file, 33, write_u64(U64(Len(file))))}
          ELSE {})

Open(file) ==
    /\ build_result \in {"Ok", "Err"}
    /\ lib_result = "none"
    /\ lib_file' = file
    /\ \E r \in {Library_new(file)} :
           /\ lib_result' = r.result
           /\ library' = [source |-> r.source, assets |-> r.assets]
    /\ UNCHANGED <<load_path, asset, data_out>>
    /\ UNCHANGED <<alvars, envvars, bvars, mvars>>

Load(path) ==
    /\ lib_result = "Ok"
    /\ data_out.state = "not run"
    /\ load_path = ""
    /\ load_path' = path
    /\ asset' = Library_load(library, path)
    /\ UNCHANGED <<lib_file, lib_result, library, data_out>>
    /\ UNCHANGED <<alvars, envvars, bvars, mvars>>

Data ==
    /\ asset # <<>>
    /\ data_out.state = "not run"
    /\ data_out' = Asset_data(asset[1])
    /\ UNCHANGED <<lib_file, lib_result, library, load_path, asset>>
    /\ UNCHANGED <<alvars, envvars, bvars, mvars>>

IdleManager ==
    /\ mgr = [loader |-> "none", assets |-> <<>>]
    /\ heap = <<>>
    /\ mgr_loads = [n \in Names |-> 0]
    /\ mgr_path = ""
    /\ mgr_ret = <<>>
    /\ loader_calls = [n \in Names |-> 0]
    /\ loader_fails = [n \in Names |-> 0]

(***************************************************************************)
(* AssetManager over either loader.                                        *)
(***************************************************************************)
AssetLoader_load(loader, path) ==
    IF loader = "Library" THEN Library_load(library, path)
    ELSE FileAssetLoader_load(path)

\* AssetManager::load: the manager and the heap after the call, what the
\* call returned, and whether the wrapped loader was called and failed.
AssetManager_load_no_cache(m, hp, path) ==
    LET loaded == AssetLoader_load(m.loader, path)
    IN  IF loaded # <<>>
        THEN [mgr |-> [m EXCEPT !.assets = HashMap_insert(m.assets, path, Len(hp) + 1)],
              heap |-> Append(hp, loaded[1]), ret |-> <<Len(hp) + 1>>,
              called |-> TRUE, failed |-> FALSE]
        ELSE [mgr |-> m, heap |-> hp, ret |-> <<>>, called |-> TRUE, failed |-> TRUE]

AssetManager_load_eager(m, hp, path) ==
    LET loaded == AssetLoader_load(m.loader, path)
    IN  IF path \in DOMAIN m.assets
        THEN [mgr |-> m, heap |-> hp, ret |-> <<m.assets[path]>>,
              called |-> TRUE, failed |-> loaded = <<>>]
        ELSE IF loaded # <<>>
        THEN [mgr |-> [m EXCEPT !.assets = HashMap_insert(m.assets, path, Len(hp) + 1)],
              heap |-> Append(hp, loaded[1]), ret |-> <<Len(hp) + 1>>,
              called |-> TRUE, failed |-> FALSE]
        ELSE [mgr |-> m, heap |-> hp, ret |-> <<>>, called |-> TRUE, failed |-> TRUE]

AssetManager_load(m, hp, path) ==
    IF path \in DOMAIN m.assets
    THEN [mgr |-> m, heap |-> hp, ret |-> <<m.assets[path]>>,
          called |-> FALSE, failed |-> FALSE]
    ELSE LET loaded == AssetLoader_load(m.loader, path)
         IN  IF loaded # <<>>
             THEN [mgr |-> [m EXCEPT !.assets = HashMap_insert(m.assets, path, Len(hp) + 1)],
                   heap |-> Append(hp, loaded[1]), ret |-> <<Len(hp) + 1>>,
                   called |-> TRUE, failed |-> FALSE]
             ELSE [mgr |-> m, heap |-> hp, ret |-> <<>>, called |-> TRUE, failed |-> TRUE]

\* AssetManager::new(loader): over a FileAssetLoader, or over a Library that
\* was opened; the manager owns its loader from then on.
NewManager(loader) ==
    /\ mgr.loader = "none"
    /\ \/ loader = "Library" /\ lib_result = "Ok" /\ load_path = ""
       \/ loader = "FileAssetLoader" /\ build_result = "none" /\ b_assets = <<>>
    /\ mgr' = [loader |-> loader, assets |-> <<>>]
    /\ UNCHANGED <<heap, mgr_loads, mgr_path, mgr_ret, loader_calls, loader_fails>>
    /\ UNCHANGED <<alvars, envvars, bvars, lvars>>

ManagerLoad(path) ==
    /\ mgr.loader # "none"
    /\ mgr_loads[path] < MaxLoads
    /\ \E r \in {AssetManager_load(mgr, heap, path)} :
           /\ mgr' = r.mgr
           /\ heap' = r.heap
           /\ mgr_ret' = r.ret
           /\ loader_calls' = [loader_calls EXCEPT ![path] = @ + (IF r.called THEN 1 ELSE 0)]
           /\ loader_fails' = [loader_fails EXCEPT ![path] = @ + (IF r.failed THEN 1 ELSE 0)]
    /\ mgr_path' = path
    /\ mgr_loads' = [mgr_loads EXCEPT ![path] = @ + 1]
    /\ UNCHANGED <<alvars, envvars, bvars, lvars>>

\* Asset::data through a handle the manager returned.
ManagerData ==
    /\ mgr_ret # <<>>
    /\ asset = <<>>
    /\ asset' = <<heap[mgr_ret[1]]>>
    /\ load_path' = mgr_path
    /\ data_out' = Asset_data(heap[mgr_ret[1]])
    /\ UNCHANGED <<lib_file, lib_result, library>>
    /\ UNCHANGED <<alvars, envvars, bvars, mvars>>

SinkCaps == {NoLimit, 4, 12, 30, 70, 130}

InitBuild ==
    /\ overflow_checks \in BOOLEAN
    /\ IdleAlign
    /\ fs \in [Names -> UNION {FileStates(n) : n \in Names}]
    /\ \A n \in Names : fs[n] \in FileStates(n)
    /\ hasher \in [Names -> HashValues]
    /\ IdleBuilder
    /\ IdleLibrary
    /\ IdleManager

Insert(desc) ==
    /\ build_result = "none"
    /\ mgr.loader = "none"
    /\ ins_count[desc.path] < MaxInserts
    /\ b_assets' = HashMap_insert(b_assets, desc.path, desc)
    /\ ins_count' = [ins_count EXCEPT ![desc.path] = @ + 1]
    /\ UNCHANGED <<output, build_result, build_log>>
    /\ UNCHANGED <<alvars, envvars, lvars, mvars>>

Build(cap) ==
    /\ build_result = "none"
    /\ mgr.loader = "none"
    /\ \E order \in Orders(DOMAIN b_assets) :
         \E r \in {Builder_build(b_assets, order, cap)} :
             /\ build_result' = r.result
             /\ output' = r.out
             /\ build_log' = r.log
    /\ UNCHANGED <<b_assets, ins_count>>
    /\ UNCHANGED <<alvars, envvars, lvars, mvars>>

NextBuild ==
    \/ \E n \in Names : Insert(AssetDescription_new(n))
    \/ \E cap \in SinkCaps : Build(cap)

SpecBuild == InitBuild /\ [][NextBuild]_vars

(***************************************************************************)
(* The pipeline of tests::library: insert, build, open, load, data.        *)
(***************************************************************************)
Init ==
    /\ InitBuild
    /\ \A n \in Names : fs[n].kind = "file"

Next ==
    \/ \E n \in Names : Insert(AssetDescription_new(n))
    \/ \E cap \in SinkCaps : Build(cap)
    \/ \E file \in ArchiveFiles(output) : Open(file)
    \/ \E n \in Names : Load(n)
    \/ Data

Spec == Init /\ [][Next]_vars

(***************************************************************************)
(* AssetManager, as in tests::filesystem and tests::library: over a        *)
(* FileAssetLoader, or over the Library of an archive built in full.       *)
(***************************************************************************)
NextManager ==
    \/ \E n \in Names : Insert(AssetDescription_new(n))
    \/ Build(NoLimit)
    \/ Open(output)
    \/ \E loader \in {"FileAssetLoader", "Library"} : NewManager(loader)
    \/ \E n \in Names : ManagerLoad(n)
    \/ ManagerData

SpecManager == InitBuild /\ [][NextManager]_vars


(***************************************************************************)
(* The specification of align_up alone: a value and a power-of-two         *)
(* alignment are drawn, align_up is applied, then applied to its result.   *)
(***************************************************************************)
\* 2^k as a u64, k in 0..63.
Pow2Limb(k) == CASE k = 0 -> 1 [] k = 1 -> 2 [] k = 2 -> 4 [] k = 3 -> 8
                 [] k = 4 -> 16 [] k = 5 -> 32 [] k = 6 -> 64 [] k = 7 -> 128
                 [] k = 8 -> 256 [] k = 9 -> 512 [] k = 10 -> 1024
                 [] k = 11 -> 2048 [] k = 12 -> 4096 [] k = 13 -> 8192
                 [] k = 14 -> 16384 [] k = 15 -> 32768

Pow2(k) == [i \in 1..NumLimbs |-> IF i = (k \div 16) + 1 THEN Pow2Limb(k % 16) ELSE 0]

AlignExponents == {0, 1, 2, 6, 16, 33, 63}

AlignBases == {U64(0), <<Limb - 40, 0, 0, 0>>, <<Limb - 40, Limb - 1, 0, 0>>,
               <<Limb - 1 - MaxAlignDelta, Limb - 1, Limb - 1, Limb - 1>>}

AlignVals == {overflowing_add(b, U64(d)).val : b \in AlignBases, d \in 0..MaxAlignDelta}

InitAlign ==
    /\ overflow_checks \in BOOLEAN
    /\ al_val \in AlignVals
    /\ al_align \in {Pow2(k) : k \in AlignExponents}
    /\ al_once = NotRun
    /\ al_twice = NotRun
    /\ IdleEnv
    /\ IdleBuilder
    /\ IdleLibrary
    /\ IdleManager

AlignOnce ==
    /\ al_once = NotRun
    /\ al_once' = align_up(al_val, al_align)
    /\ UNCHANGED <<overflow_checks, al_val, al_align, al_twice>>
    /\ UNCHANGED <<envvars, bvars, lvars, mvars>>

AlignTwice ==
    /\ al_once \notin {NotRun, Panic}
    /\ al_twice = NotRun
    /\ al_twice' = align_up(al_once, al_align)
    /\ UNCHANGED <<overflow_checks, al_val, al_align, al_once>>
    /\ UNCHANGED <<envvars, bvars, lvars, mvars>>

NextAlign == AlignOnce \/ AlignTwice

SpecAlign == InitAlign /\ [][NextAlign]_vars

(***************************************************************************)
(* Claims about align_up (SpecAlign).                                      *)
(***************************************************************************)
\* x is a multiple of 2^k: its k low bits are zero.
MultipleOfPow2(x, k) ==
    \A i \in 1..NumLimbs :
        IF 16 * i <= k THEN x[i] = 0
        ELSE IF 16 * (i - 1) < k THEN x[i] % Pow2Limb(k - 16 * (i - 1)) = 0
        ELSE TRUE

\* r < v + a over the naturals: the sum may need a 65th bit.
LessThanSum(r, v, a) ==
    LET sum == overflowing_add(v, a)
    IN  sum.overflow \/ Less(r, sum.val)

\* The four laws, for a result r of align_up(v, 2^k) and the result rr of
\* applying align_up to r again.
AlignLaws(v, k, r) ==
    /\ r # Panic
    /\ LessEq(v, r)
    /\ LessThanSum(r, v, Pow2(k))
    /\ MultipleOfPow2(r, k)

AlignExponent == CHOOSE k \in AlignExponents : Pow2(k) = al_align

\* v + (a - 1) fits in 64 bits: v <= 2^64 - a.
AlignFits == LessEq(al_val, overflowing_sub(U64_MAX, overflowing_sub(al_align, U64(1)).val).val)

\* C10 as claimed: for every v and every power of two a, align_up(v, a) >= v,
\* align_up(v, a) < v + a, align_up(v, a) is a multiple of a, and align_up is
\* idempotent, also where v + (a - 1) does not fit in 64 bits.
C10_AlignLawsEverywhere ==
    /\ al_once # NotRun => AlignLaws(al_val, AlignExponent, al_once)
    /\ al_twice # NotRun => al_twice = al_once

\* C10 as amended: the four laws hold for every v and power of two a with
\* v + (a - 1) <= 2^64 - 1, in either build profile; beyond that align_up
\* panics or returns a wrapped value below v.
C10_AlignLawsWhenNoOverflow ==
    /\ (al_once # NotRun /\ AlignFits) =>
           /\ AlignLaws(al_val, AlignExponent, al_once)
           /\ al_twice # NotRun => al_twice = al_once
    /\ (al_once # NotRun /\ ~AlignFits) => (al_once = Panic \/ Less(al_once, al_val))

\* A value above 2^48 that is not aligned was rounded up, and again.
C10_Witness ==
    /\ AlignFits
    /\ al_val[4] > 0
    /\ al_align = Pow2(6)
    /\ al_once \notin {NotRun, Panic, al_val}
    /\ al_twice = al_once

(***************************************************************************)
(* Claims about Builder (SpecBuild).                                       *)
(***************************************************************************)
BuildRan == build_result \in {"Ok", "Err"}

Inserted == {n \in Names : ins_count[n] > 0}

\* The total number of bytes a build that nothing stops writes.
FullLength ==
    LET e == build_log.entries
    IN  IF Len(e) = 0 THEN ToNat(build_log.aligned_base)
        ELSE ToNat(e[Len(e)].offset)
             + ASSET_ALIGN_SIZE * ((ToNat(e[Len(e)].size) + ASSET_ALIGN_SIZE - 1) \div ASSET_ALIGN_SIZE)

\* A u64 field as the output holds it, little-endian, `at` bytes in.
FieldAt(bytes, at) ==
    [i \in 1..NumLimbs |-> bytes[at + 2 * i - 1] + 256 * bytes[at + 2 * i]]

\* C5 as claimed: build returns Err whenever an inserted asset's file cannot
\* be read (missing, or not openable) or a write to the sink fails, and never
\* ends other than by returning a Result.
C5_BuildFailureReturnsErr ==
    build_result # "none" =>
        /\ build_result \in {"Ok", "Err"}
        /\ (\E n \in DOMAIN b_assets : fs[n].kind # "file") => build_result = "Err"
        /\ (build_log.cap # NoLimit /\ build_log.cap < FullLength) => build_result = "Err"

\* C6: the asset-data base offset and every table entry's offset, as
\* computed and as written to the output, are multiples of 64, and the
\* number of bytes written before an asset's payload is its entry's offset.
C6_OffsetsAligned ==
    BuildRan =>
        /\ ToNat(build_log.aligned_base) % ASSET_ALIGN_SIZE = 0
        /\ \A i \in DOMAIN build_log.entries :
             /\ ToNat(build_log.entries[i].offset) % ASSET_ALIGN_SIZE = 0
             /\ Len(output) >= 16 + 24 * i =>
                    FieldAt(output, 16 + 24 * (i - 1) + 8) = build_log.entries[i].offset
             /\ build_log.order[i] \in DOMAIN build_log.began =>
                    build_log.began[build_log.order[i]] = ToNat(build_log.entries[i].offset)
        /\ (build_log.entries # <<>> /\ build_log.order[1] \in DOMAIN build_log.began) =>
               build_log.began[build_log.order[1]] = ToNat(build_log.aligned_base)

\* A complete build of a zero-length asset and one longer than a block.
C6_Witness ==
    /\ build_result = "Ok"
    /\ DOMAIN build_log.began = Names
    /\ \E n \in Names : Len(fs[n].data) = 0
    /\ \E n \in Names : Len(fs[n].data) = ASSET_ALIGN_SIZE + 1
    /\ build_log.entries[2].offset = build_log.entries[1].offset

\* C7: build emits one table entry per distinct inserted name, the header
\* count is the number of distinct names, and the entry of a name (inserted
\* once or several times) holds the data of the file the name denotes.
C7_OneEntryPerName ==
    BuildRan =>
        /\ Len(build_log.entries) = Cardinality(Inserted)
        /\ \A n \in Inserted : Cardinality({i \in DOMAIN build_log.order : build_log.order[i] = n}) = 1
        /\ Len(output) >= 16 => FieldAt(output, 8) = U64(Cardinality(Inserted))
        /\ \A i \in DOMAIN build_log.entries :
             LET e == build_log.entries[i]
                 n == build_log.order[i]
             IN  /\ e.id = hasher[n]
                 /\ e.size = U64(Len(fs[n].data))
                 /\ build_result = "Ok" =>
                        SubSeq(output, ToNat(e.offset) + 1, ToNat(e.offset) + ToNat(e.size))
                        = fs[n].data

\* A name inserted twice and another inserted once, built in full.
C7_Witness ==
    /\ build_result = "Ok"
    /\ ins_count["a"] = 2
    /\ ins_count["b"] = 1
    /\ Len(build_log.entries) = 2
    /\ Len(fs["a"].data) > 0

(***************************************************************************)
(* Claims about the archive round trip and Library (Spec).                 *)
(***************************************************************************)
\* Library::new was given the very file a successful build wrote.
OpenedBuiltArchive == build_result = "Ok" /\ lib_result # "none" /\ lib_file = output

DistinctIds(names) == \A n, m \in names : n # m => hasher[n] # hasher[m]

RoundTrip ==
    /\ lib_result = "Ok"
    /\ (load_path \in DOMAIN b_assets) =>
           /\ asset # <<>>
           /\ data_out.state # "not run" =>
                  data_out = [state |-> "ok", bytes |-> fs[load_path].data]

\* C1 as claimed: for any set of distinct names, build, then open, then load
\* of each name returns the bytes of that name's file.
C1_RoundTripAnyNames == OpenedBuiltArchive => RoundTrip

\* C1 as amended: the same, for names whose identifiers are pairwise distinct.
C1_RoundTripDistinctIds ==
    (OpenedBuiltArchive /\ DistinctIds(DOMAIN b_assets)) => RoundTrip

\* Two assets were built, the archive opened, and the 65 bytes of one read back.
C1_Witness ==
    /\ OpenedBuiltArchive
    /\ DOMAIN b_assets = Names
    /\ DistinctIds(Names)
    /\ data_out.state = "ok"
    /\ Len(data_out.bytes) = ASSET_ALIGN_SIZE + 1
    /\ \E n \in Names : Len(fs[n].data) = 1

\* The window of a table entry lies within a source of `len` bytes.
InBounds(e, len) ==
    /\ ~overflowing_add(e.offset, e.size).overflow
    /\ LessEq(overflowing_add(e.offset, e.size).val, U64(len))

\* C3 as claimed: Library::new fails on an entry whose offset + size exceeds
\* the length of the source, so every entry of an opened Library is within
\* the source and Asset::data never panics.
C3_EntriesWithinSource ==
    /\ lib_result = "Ok" =>
           \A k \in DOMAIN library.assets : InBounds(library.assets[k], Len(library.source))
    /\ data_out.state # "panic"

\* C4 as claimed: load of a name that was not inserted returns None, whatever
\* the name's identifier.
C4_UnknownNameIsNone ==
    (OpenedBuiltArchive /\ lib_result = "Ok" /\ load_path # "" /\ load_path \notin DOMAIN b_assets)
        => asset = <<>>

\* C4 as amended: load of a name that was not inserted returns None when no
\* inserted name has the same identifier; when one has, load returns an Asset
\* with the window of that identifier's entry.
C4_UnknownIdIsNone ==
    (OpenedBuiltArchive /\ lib_result = "Ok" /\ load_path # "" /\ load_path \notin DOMAIN b_assets)
        => IF \A n \in DOMAIN b_assets : hasher[n] # hasher[load_path]
           THEN asset = <<>>
           ELSE /\ asset # <<>>
                /\ \E i \in DOMAIN build_log.entries :
                     /\ build_log.entries[i].id = hasher[load_path]
                     /\ asset[1].offset = build_log.entries[i].offset
                     /\ asset[1].size = build_log.entries[i].size

\* A name that was not inserted, of another identifier than the inserted one.
C4_Witness ==
    /\ OpenedBuiltArchive
    /\ lib_result = "Ok"
    /\ DOMAIN b_assets = {"a"}
    /\ load_path = "b"
    /\ hasher["a"] # hasher["b"]
    /\ asset = <<>>

\* The entry count the file declares fits the bytes that follow the headers.
DeclaredEntriesFit(file) == LessEq(FieldAt(file, 8), U64((Len(file) - 16) \div 24))

\* What Library::new does with a source of at least one byte, and what an Ok
\* result guarantees: InvalidData on a wrong magic number, UnexpectedEof when
\* the source ends inside the file header, the table header or the declared
\* entries, and Ok only with every declared entry read.
OpenOutcomeNonEmpty ==
    /\ (Len(lib_file) >= 8 /\ FieldAt(lib_file, 0) # MAGIC_NUMBER) => lib_result = "InvalidData"
    /\ (Len(lib_file) > 0 /\ Len(lib_file) < 8) => lib_result = "UnexpectedEof"
    /\ (Len(lib_file) >= 8 /\ Len(lib_file) < 16 /\ FieldAt(lib_file, 0) = MAGIC_NUMBER)
           => lib_result = "UnexpectedEof"
    /\ (Len(lib_file) >= 16 /\ FieldAt(lib_file, 0) = MAGIC_NUMBER /\ ~DeclaredEntriesFit(lib_file))
           => lib_result = "UnexpectedEof"
    /\ lib_result = "Ok" =>
           /\ Len(lib_file) >= 16
           /\ FieldAt(lib_file, 0) = MAGIC_NUMBER
           /\ DeclaredEntriesFit(lib_file)
           /\ library.source = lib_file
           /\ \A i \in 1..ToNat(FieldAt(lib_file, 8)) :
                  /\ FieldAt(lib_file, 16 + 24 * (i - 1)) \in DOMAIN library.assets
                  /\ library.assets[FieldAt(lib_file, 16 + 24 * (i - 1))].id
                         = FieldAt(lib_file, 16 + 24 * (i - 1))

\* C8 as claimed: Library::new fails with InvalidData when the first eight
\* bytes are not the magic number, fails with UnexpectedEof whenever the
\* source ends before the file header, the table header or the declared
\* number of entries, the source of no bytes included, and succeeds only with
\* every declared entry read.
C8_OpenTruncatedIsEof ==
    lib_result # "none" =>
        /\ Len(lib_file) = 0 => lib_result = "UnexpectedEof"
        /\ OpenOutcomeNonEmpty

\* C8 as amended: Library::new fails with InvalidData when the first eight
\* bytes are not the magic number, fails with UnexpectedEof when a source of
\* at least one byte ends before the file header, the table header or the
\* declared number of entries, fails with InvalidInput on a source of no
\* bytes, which cannot be mapped, and succeeds only with every declared entry
\* read.
C8_OpenRejectsBadHeader ==
    lib_result # "none" =>
        /\ Len(lib_file) = 0 => lib_result = "InvalidInput"
        /\ OpenOutcomeNonEmpty

\* An archive cut short inside its one table entry.
C8_Witness ==
    /\ lib_result = "UnexpectedEof"
    /\ Len(lib_file) = 30
    /\ FieldAt(lib_file, 0) = MAGIC_NUMBER
    /\ FieldAt(lib_file, 8) = U64(1)

(***************************************************************************)
(* Claims about AssetManager (SpecManager).                                *)
(***************************************************************************)
Cached == DOMAIN mgr.assets

LoaderHits(n) == loader_calls[n] - loader_fails[n]

\* C2 as claimed: the wrapped loader is invoked at most once per name, also
\* for a name it fails to resolve.
C2_LoaderCalledOncePerName == \A n \in Names : loader_calls[n] <= 1

\* C2 as amended: the wrapped loader resolves each name at most once: a name
\* is cached by its one successful resolution and the loader is not invoked
\* for it again; a name whose resolution fails is not cached, and every load
\* of it invokes the loader again.
C2_LoaderHitsOncePerName ==
    \A n \in Names :
        /\ LoaderHits(n) <= 1
        /\ n \in Cached => (LoaderHits(n) = 1 /\ loader_calls[n] <= mgr_loads[n])
        /\ n \notin Cached => (LoaderHits(n) = 0 /\ loader_calls[n] = mgr_loads[n])

\* One name loaded twice from the cache's point of view, another failing twice.
C2_Witness ==
    \E n, m \in Names :
        /\ n \in Cached /\ mgr_loads[n] = 2 /\ loader_calls[n] = 1
        /\ m \notin Cached /\ loader_fails[m] = 2

\* C9: a cached name stays cached and bound to the same handle and the same
\* Asset; a load of it returns that handle and does not invoke the loader;
\* a handle that load returns is the one cached under the name.
C9_CacheStable ==
    [][ /\ \A n \in Cached :
             /\ n \in DOMAIN mgr'.assets
             /\ mgr'.assets[n] = mgr.assets[n]
             /\ heap'[mgr.assets[n]] = heap[mgr.assets[n]]
             /\ mgr_loads'[n] > mgr_loads[n] =>
                    (mgr_ret' = <<mgr.assets[n]>> /\ loader_calls' = loader_calls)
        /\ \A n \in Names :
             (mgr_loads'[n] > mgr_loads[n] /\ mgr_ret' # <<>>) =>
                 (n \in DOMAIN mgr'.assets /\ mgr_ret' = <<mgr'.assets[n]>>)
      ]_vars

\* Both names cached, and the one loaded first loaded again after the other.
C9_Witness ==
    /\ Cached = Names
    /\ mgr_path \in Names
    /\ mgr.assets[mgr_path] = 1
    /\ mgr_loads[mgr_path] = 2
    /\ mgr_ret = <<1>>
    /\ Len(heap) = 2
    /\ \A n \in Names : loader_calls[n] = 1

=============================================================================
